---- MODULE Spec2Model ----
(***************************************************************************)
(* Model of the OpenSearch request adapter (opensearch/1.0.0/src/app.py).  *)
(*                                                                         *)
(* Python text is modelled as a sequence of one-character strings, so that *)
(* strip / startswith / rstrip / lower / "in" are computed character by    *)
(* character.  Python values are records with a type tag t and one field   *)
(* per type, so that values of different types can be compared.            *)
(***************************************************************************)
EXTENDS Integers, Sequences, FiniteSets, TLC

VARIABLES fs, nCalls, nSent, last, probe

vars == <<fs, nCalls, nSent, last, probe>>

(***************************************************************************)
(* Bounds of the model.                                                    *)
(***************************************************************************)
\* Number of action invocations in one behaviour.
MaxCalls == 2
\* Length of the free part of a base_url input.
MaxUrlLen == 3
\* Length of the enumerated body texts given to _parse_json_input.
MaxBodyLen == 3

(***************************************************************************)
(* Python values.                                                          *)
(***************************************************************************)
V(t, b, n, s, items) == [t |-> t, b |-> b, n |-> n, s |-> s, items |-> items]

PyNone == V("none", FALSE, 0, <<>>, <<>>)
PyBool(b) == V("bool", b, 0, <<>>, <<>>)
PyInt(n) == V("int", FALSE, n, <<>>, <<>>)
PyStr(s) == V("str", FALSE, 0, s, <<>>)
PyList(items) == V("list", FALSE, 0, <<>>, items)
PyDict(items) == V("dict", FALSE, 0, <<>>, items)
PySet(items) == V("set", FALSE, 0, <<>>, items)
PyTuple(items) == V("tuple", FALSE, 0, <<>>, items)
\* One key/value entry of a dict.
PyPair(k, v) == V("pair", FALSE, 0, <<>>, <<k, v>>)

\* F(x), with x evaluated once.
Bind(x, F(_)) == CHOOSE y \in {F(v) : v \in {x}} : TRUE

\* Python truthiness ("if value:", "not value").
Truthy(v) ==
  CASE v.t = "none" -> FALSE
    [] v.t = "bool" -> v.b
    [] v.t = "int" -> v.n # 0
    [] v.t = "str" -> v.s # <<>>
    [] OTHER -> v.items # <<>>

(***************************************************************************)
(* Python str methods, on sequences of characters.                         *)
(***************************************************************************)
IsSpace(c) == c \in {" ", "\t", "\n", "\r", "\f"}

RECURSIVE LStrip(_)
LStrip(s) == IF s # <<>> /\ IsSpace(Head(s)) THEN LStrip(Tail(s)) ELSE s

RECURSIVE RStrip(_)
RStrip(s) ==
  IF s # <<>> /\ IsSpace(s[Len(s)]) THEN RStrip(SubSeq(s, 1, Len(s) - 1)) ELSE s

\* str.strip()
Strip(s) == RStrip(LStrip(s))

\* str.rstrip(chars) for a one-character argument
RECURSIVE RStripChar(_, _)
RStripChar(s, c) ==
  IF s # <<>> /\ s[Len(s)] = c THEN RStripChar(SubSeq(s, 1, Len(s) - 1), c) ELSE s

\* str.startswith(prefix)
StartsWith(s, p) == Len(s) >= Len(p) /\ SubSeq(s, 1, Len(p)) = p

\* str.endswith(suffix)
EndsWith(s, p) == Len(s) >= Len(p) /\ SubSeq(s, Len(s) - Len(p) + 1, Len(s)) = p

\* "sub in s"
Contains(s, sub) ==
  \E i \in 1..(Len(s) - Len(sub) + 1) : SubSeq(s, i, i + Len(sub) - 1) = sub

UpperChars == <<"A","B","C","D","E","F","G","H","I","J","K","L","M",
                "N","O","P","Q","R","S","T","U","V","W","X","Y","Z">>
LowerChars == <<"a","b","c","d","e","f","g","h","i","j","k","l","m",
                "n","o","p","q","r","s","t","u","v","w","x","y","z">>

\* str.lower()
Lower(s) ==
  [i \in 1..Len(s) |->
     IF \E k \in 1..26 : UpperChars[k] = s[i]
     THEN LowerChars[CHOOSE k \in 1..26 : UpperChars[k] = s[i]]
     ELSE s[i]]

\* All sequences over alphabet A of length at most n.
RECURSIVE SeqsUpTo(_, _)
SeqsUpTo(A, n) ==
  IF n = 0 THEN {<<>>}
  ELSE LET shorter == SeqsUpTo(A, n - 1)
       IN shorter \cup {Append(s, c) : s \in shorter, c \in A}

(***************************************************************************)
(* _normalize_base_url                                                     *)
(***************************************************************************)
SchemeHttp == <<"h","t","t","p",":","/","/">>
SchemeHttps == <<"h","t","t","p","s",":","/","/">>

\* Result of a helper that may raise: err names the exception raised ("" if none).
Raised(e) == [err |-> e, url |-> <<>>]

with_default_scheme(u) ==
  IF ~StartsWith(u, SchemeHttp) /\ ~StartsWith(u, SchemeHttps)
  THEN SchemeHttps \o u
  ELSE u

_normalize_base_url(base_url) ==
  IF ~Truthy(base_url) THEN Raised("ValueError: base_url is required")
  ELSE [err |-> "",
        url |-> RStripChar(with_default_scheme(Strip(base_url.s)), "/")]

(***************************************************************************)
(* str(value) and int(value)                                               *)
(***************************************************************************)
Digits == <<"0","1","2","3","4","5","6","7","8","9">>
IsDigit(c) == \E i \in 1..10 : Digits[i] = c

RECURSIVE NatToStr(_)
NatToStr(n) ==
  IF n < 10 THEN <<Digits[n + 1]>>
  ELSE Append(NatToStr(n \div 10), Digits[(n % 10) + 1])

\* str(value) for the str and int values that reach _to_bool
PyStrOf(v) ==
  CASE v.t = "str" -> v.s
    [] v.t = "int" -> IF v.n < 0 THEN <<"-">> \o NatToStr(0 - v.n) ELSE NatToStr(v.n)
    [] v.t = "bool" -> IF v.b THEN <<"T","r","u","e">> ELSE <<"F","a","l","s","e">>
    [] OTHER -> <<"N","o","n","e">>

RECURSIVE DigitsVal(_, _)
DigitsVal(s, acc) ==
  IF s = <<>> THEN acc
  ELSE IF Head(s) = "_" THEN DigitsVal(Tail(s), acc)
  ELSE DigitsVal(Tail(s), 10 * acc + ((CHOOSE i \in 1..10 : Digits[i] = Head(s)) - 1))

\* The digit part of an int() literal: digits, single underscores between digits.
IsIntBody(s) ==
  /\ s # <<>>
  /\ IsDigit(s[1]) /\ IsDigit(s[Len(s)])
  /\ \A i \in 1..Len(s) : IsDigit(s[i]) \/ s[i] = "_"
  /\ \A i \in 1..(Len(s) - 1) : ~(s[i] = "_" /\ s[i + 1] = "_")

IntOfText(s) ==
  LET text == Strip(s)
      signed == text # <<>> /\ Head(text) \in {"+", "-"}
      body == IF signed THEN Tail(text) ELSE text
  IN IF IsIntBody(body)
     THEN [ok |-> TRUE,
           n |-> IF signed /\ Head(text) = "-" THEN 0 - DigitsVal(body, 0)
                 ELSE DigitsVal(body, 0)]
     ELSE [ok |-> FALSE, n |-> 0]

\* int(value): ok is FALSE where Python raises (TypeError or ValueError).
PyIntOf(v) ==
  CASE v.t = "int" -> [ok |-> TRUE, n |-> v.n]
    [] v.t = "bool" -> [ok |-> TRUE, n |-> IF v.b THEN 1 ELSE 0]
    [] v.t = "str" -> IntOfText(v.s)
    [] OTHER -> [ok |-> FALSE, n |-> 0]

(***************************************************************************)
(* _to_bool                                                                *)
(***************************************************************************)
TrueWords == {<<"t","r","u","e">>, <<"1">>, <<"y","e","s">>, <<"y">>}
FalseWords == {<<"f","a","l","s","e">>, <<"0">>, <<"n","o">>, <<"n">>}

\* _to_bool with the final "return default" taken for "return False".
_to_bool_unrecognized_false(value, default) ==
  IF value.t = "none" \/ value = PyStr(<<>>) THEN default
  ELSE IF value.t = "bool" THEN value.b
  ELSE Lower(Strip(PyStrOf(value))) \in TrueWords

_to_bool(value, default) ==
  IF value.t = "none" \/ value = PyStr(<<>>) THEN default
  ELSE IF value.t = "bool" THEN value.b
  ELSE LET text == Lower(Strip(PyStrOf(value)))
       IN IF text \in TrueWords THEN TRUE
          ELSE IF text \in FalseWords THEN FALSE
          ELSE default

(***************************************************************************)
(* json.loads and ast.literal_eval, as recursive-descent parsers over a    *)
(* text.  mode is "json" or "py".  Covered: objects/dicts, arrays/lists,   *)
(* Python sets and bare top-level tuples, quoted strings (Python: either   *)
(* quote, triple quotes, adjacent-literal concatenation), unsigned         *)
(* integers, and the constant names.  Texts with a backslash, "#", a sign, *)
(* parentheses, a letter outside quotes that is not part of a constant     *)
(* name, or a digit followed by ".", "_" or a letter are outside the       *)
(* modelled inputs.                                                        *)
(* A result is [ok, v, i]: i is the position after what was read.          *)
(***************************************************************************)
ParseFail == [ok |-> FALSE, v |-> PyNone, i |-> 0]
ParseOk(v, i) == [ok |-> TRUE, v |-> v, i |-> i]

DQ == "\""
SQ == "'"

\* Whitespace between tokens.  Python ends the expression at a newline that
\* is not inside brackets (top = TRUE).
IsTokenSpace(c, mode, top) ==
  IF mode = "json" THEN c \in {" ", "\t", "\n", "\r"}
  ELSE IF top THEN c \in {" ", "\t", "\f"}
  ELSE c \in {" ", "\t", "\f", "\n", "\r"}

RECURSIVE SkipWs(_, _, _, _)
SkipWs(s, i, mode, top) ==
  IF i <= Len(s) /\ IsTokenSpace(s[i], mode, top) THEN SkipWs(s, i + 1, mode, top)
  ELSE i

\* Position of the first occurrence of sub in s at or after i (0 if none).
FindFrom(s, sub, i) ==
  LET hits == {j \in i..(Len(s) - Len(sub) + 1) : SubSeq(s, j, j + Len(sub) - 1) = sub}
  IN IF hits = {} THEN 0 ELSE CHOOSE j \in hits : \A k \in hits : j <= k


\* One string literal starting at the quote s[i].
ParseOneString(s, i, mode) ==
  LET q == s[i]
      triple == mode = "py" /\ i + 2 <= Len(s) /\ s[i + 1] = q /\ s[i + 2] = q
  IN IF triple
     THEN LET e == FindFrom(s, <<q, q, q>>, i + 3)
          IN IF e = 0 THEN ParseFail
             ELSE ParseOk(PyStr(SubSeq(s, i + 3, e - 1)), e + 3)
     ELSE LET e == FindFrom(s, <<q>>, i + 1)
              body == SubSeq(s, i + 1, e - 1)
          IN IF e = 0 THEN ParseFail
             ELSE IF mode = "json" /\ (\E k \in 1..Len(body) : body[k] \in {"\n", "\r", "\t", "\f"}) THEN ParseFail
             ELSE IF mode = "py" /\ (\E k \in 1..Len(body) : body[k] \in {"\n", "\r"}) THEN ParseFail
             ELSE ParseOk(PyStr(body), e + 1)

IsQuote(c, mode) == c = DQ \/ (mode = "py" /\ c = SQ)

\* A string; in Python, adjacent literals are concatenated.
RECURSIVE ParseString(_, _, _, _)
ParseString(s, i, mode, top) ==
  Bind(ParseOneString(s, i, mode), LAMBDA r :
    IF ~r.ok \/ mode = "json" THEN r
    ELSE Bind(SkipWs(s, r.i, mode, top), LAMBDA j :
      IF j <= Len(s) /\ IsQuote(s[j], mode)
      THEN Bind(ParseString(s, j, mode, top), LAMBDA more :
             IF more.ok THEN ParseOk(PyStr(r.v.s \o more.v.s), more.i) ELSE ParseFail)
      ELSE r))

RECURSIVE DigitRunEnd(_, _)
DigitRunEnd(s, i) == IF i <= Len(s) /\ IsDigit(s[i]) THEN DigitRunEnd(s, i + 1) ELSE i

IsNameChar(c) ==
  IsDigit(c) \/ c = "_" \/ (\E k \in 1..26 : LowerChars[k] = c \/ UpperChars[k] = c)

\* An unsigned integer.  A leading zero is allowed only for zero itself.
ParseNumber(s, i, mode) ==
  LET e == DigitRunEnd(s, i)
      run == SubSeq(s, i, e - 1)
      zero == \A k \in 1..Len(run) : run[k] = "0"
      joined == e <= Len(s) /\ (IsNameChar(s[e]) \/ s[e] = ".")
  IN IF joined THEN ParseFail
     ELSE IF Len(run) > 1 /\ run[1] = "0" /\ ~(mode = "py" /\ zero) THEN ParseFail
     ELSE ParseOk(PyInt(DigitsVal(run, 0)), e)

Keywords(mode) ==
  IF mode = "json"
  THEN {[w |-> <<"t","r","u","e">>, v |-> PyBool(TRUE)],
        [w |-> <<"f","a","l","s","e">>, v |-> PyBool(FALSE)],
        [w |-> <<"n","u","l","l">>, v |-> PyNone]}
  ELSE {[w |-> <<"T","r","u","e">>, v |-> PyBool(TRUE)],
        [w |-> <<"F","a","l","s","e">>, v |-> PyBool(FALSE)],
        [w |-> <<"N","o","n","e">>, v |-> PyNone]}

ParseKeyword(s, i, mode) ==
  LET hits == {k \in Keywords(mode) :
                 /\ i + Len(k.w) - 1 <= Len(s)
                 /\ SubSeq(s, i, i + Len(k.w) - 1) = k.w
                 /\ ~(i + Len(k.w) <= Len(s) /\ IsNameChar(s[i + Len(k.w)]))}
  IN IF hits = {} THEN ParseFail
     ELSE LET k == CHOOSE k \in hits : TRUE IN ParseOk(k.v, i + Len(k.w))

\* Python: True == 1 and False == 0 as dict keys and set elements.
KeyNorm(k) == IF k.t = "bool" THEN PyInt(IF k.b THEN 1 ELSE 0) ELSE k
KeyEq(a, b) == KeyNorm(a) = KeyNorm(b)
Hashable(v) == v.t \in {"none", "bool", "int", "str"}

\* dict(...) of parsed entries: a repeated key keeps its place, the last value wins.
RECURSIVE BuildDict(_, _)
BuildDict(pairs, acc) ==
  IF pairs = <<>> THEN acc
  ELSE LET p == Head(pairs)
           at == {k \in 1..Len(acc) : KeyEq(acc[k].items[1], p.items[1])}
       IN IF at = {} THEN BuildDict(Tail(pairs), Append(acc, p))
          ELSE LET k == CHOOSE k \in at : TRUE
               IN BuildDict(Tail(pairs),
                            [acc EXCEPT ![k] = PyPair(acc[k].items[1], p.items[2])])

\* set(...) of parsed elements: the first of equal elements is kept.
RECURSIVE BuildSet(_, _)
BuildSet(elems, acc) ==
  IF elems = <<>> THEN acc
  ELSE IF \E k \in 1..Len(acc) : KeyEq(acc[k], Head(elems))
       THEN BuildSet(Tail(elems), acc)
       ELSE BuildSet(Tail(elems), Append(acc, Head(elems)))

\* The value of the items read between braces.
BraceValue(items, mode) ==
  LET allPairs == \A k \in 1..Len(items) : items[k].t = "pair"
      noPairs == \A k \in 1..Len(items) : items[k].t # "pair"
  IN IF allPairs
     THEN IF mode = "json"
          THEN IF \A k \in 1..Len(items) : items[k].items[1].t = "str"
               THEN [ok |-> TRUE, v |-> PyDict(BuildDict(items, <<>>))]
               ELSE [ok |-> FALSE, v |-> PyNone]
          ELSE IF \A k \in 1..Len(items) : Hashable(items[k].items[1])
               THEN [ok |-> TRUE, v |-> PyDict(BuildDict(items, <<>>))]
               ELSE [ok |-> FALSE, v |-> PyNone]
     ELSE IF noPairs /\ mode = "py" /\ \A k \in 1..Len(items) : Hashable(items[k])
          THEN [ok |-> TRUE, v |-> PySet(BuildSet(items, <<>>))]
          ELSE [ok |-> FALSE, v |-> PyNone]

RECURSIVE ParseValue(_, _, _, _)
RECURSIVE ParseItems(_, _, _, _, _, _)

\* The item that starts at s[j], then the rest of the items.  Between braces
\* an item may be a key, a colon and a value.
ParseItem(s, j, mode, close, acc) ==
  Bind(ParseValue(s, j, mode, close = ""), LAMBDA entry :
    IF ~entry.ok THEN ParseFail
    ELSE Bind(SkipWs(s, entry.i, mode, close = ""), LAMBDA k :
      IF close = "}" /\ k <= Len(s) /\ s[k] = ":"
      THEN Bind(ParseValue(s, k + 1, mode, FALSE), LAMBDA val :
             IF val.ok
             THEN ParseItems(s, val.i, mode, close,
                             Append(acc, PyPair(entry.v, val.v)), "item")
             ELSE ParseFail)
      ELSE ParseItems(s, entry.i, mode, close, Append(acc, entry.v), "item")))

\* Items separated by commas up to the closing bracket close ("" closes at the
\* end of the text: the top level of a Python expression).  phase is "start",
\* "item" (an item was read) or "comma" (a comma was read).  In the result v is
\* a tuple of the items and v.b tells whether a comma was read.
ParseItems(s, i, mode, close, acc, phase) ==
  Bind(SkipWs(s, i, mode, close = ""), LAMBDA j :
    LET top == close = ""
        atEnd == j > Len(s)
        atClose == IF top THEN atEnd ELSE ~atEnd /\ s[j] = close
        commas == phase = "comma" \/ Len(acc) > 1
    IN IF atClose
       THEN IF phase = "comma" /\ mode = "json" THEN ParseFail
            ELSE IF top /\ acc = <<>> THEN ParseFail
            ELSE ParseOk(V("tuple", commas, 0, <<>>, acc), IF top THEN j ELSE j + 1)
       ELSE IF atEnd THEN ParseFail
       ELSE IF phase = "item"
            THEN IF s[j] = "," THEN ParseItems(s, j + 1, mode, close, acc, "comma")
                 ELSE ParseFail
            ELSE ParseItem(s, j, mode, close, acc))

ParseValue(s, i, mode, top) ==
  Bind(SkipWs(s, i, mode, top), LAMBDA j :
    IF j > Len(s) THEN ParseFail
    ELSE IF s[j] = "["
         THEN Bind(ParseItems(s, j + 1, mode, "]", <<>>, "start"), LAMBDA r :
                IF r.ok THEN ParseOk(PyList(r.v.items), r.i) ELSE ParseFail)
    ELSE IF s[j] = "{"
         THEN Bind(ParseItems(s, j + 1, mode, "}", <<>>, "start"), LAMBDA r :
                IF ~r.ok THEN ParseFail
                ELSE Bind(BraceValue(r.v.items, mode), LAMBDA b :
                       IF b.ok THEN ParseOk(b.v, r.i) ELSE ParseFail))
    ELSE IF IsQuote(s[j], mode) THEN ParseString(s, j, mode, top)
    ELSE IF IsDigit(s[j]) THEN ParseNumber(s, j, mode)
    ELSE ParseKeyword(s, j, mode))

\* json.loads(text): ok is FALSE where it raises.
JsonLoads(text) ==
  Bind(text, LAMBDA s :
    Bind(ParseValue(s, 1, "json", FALSE), LAMBDA r :
      IF r.ok /\ SkipWs(s, r.i, "json", FALSE) > Len(s)
      THEN [ok |-> TRUE, v |-> r.v]
      ELSE [ok |-> FALSE, v |-> PyNone]))

\* ast.literal_eval(text): ok is FALSE where it raises.
LiteralEval(text) ==
  Bind(LStrip(text), LAMBDA src :
    Bind(ParseItems(src, 1, "py", "", <<>>, "start"), LAMBDA r :
      IF ~r.ok THEN [ok |-> FALSE, v |-> PyNone]
      ELSE IF r.v.b THEN [ok |-> TRUE, v |-> PyTuple(r.v.items)]
      ELSE [ok |-> TRUE, v |-> r.v.items[1]]))

(***************************************************************************)
(* _parse_json_input                                                       *)
(***************************************************************************)
\* The string branch without the ast.literal_eval fallback.
parse_text_json_only(data) ==
  Bind(Strip(data.s), LAMBDA text :
    IF text = <<>> THEN PyNone
    ELSE IF StartsWith(text, <<"{">>) \/ StartsWith(text, <<"[">>)
         THEN Bind(JsonLoads(text), LAMBDA js : IF js.ok THEN js.v ELSE data)
         ELSE data)

\* The string branch, lines 42-53
parse_text(data) ==
  Bind(Strip(data.s), LAMBDA text :
    IF text = <<>> THEN PyNone
    ELSE IF StartsWith(text, <<"{">>) \/ StartsWith(text, <<"[">>)
         THEN Bind(JsonLoads(text), LAMBDA js :
                IF js.ok THEN js.v
                ELSE Bind(LiteralEval(text), LAMBDA lit :
                       IF lit.ok THEN lit.v ELSE data))
         ELSE data)

_parse_json_input(data) ==
  IF data.t = "none" THEN PyNone
  ELSE IF data.t \in {"dict", "list"} THEN data
  ELSE IF data.t = "str" THEN parse_text(data)
  ELSE data

(***************************************************************************)
(* str.encode("utf-8"), for ASCII text: one byte per character.            *)
(***************************************************************************)
\* The printable ASCII characters: code points 32 to 95, and 97 to 126
\* (the grave accent, 96, is in no modelled text).
AsciiLow == <<" ", "!", "\"", "#", "$", "%", "&", "'", "(", ")", "*", "+",
            ",", "-", ".", "/", "0", "1", "2", "3", "4", "5", "6", "7",
            "8", "9", ":", ";", "<", "=", ">", "?", "@", "A", "B", "C",
            "D", "E", "F", "G", "H", "I", "J", "K", "L", "M", "N", "O",
            "P", "Q", "R", "S", "T", "U", "V", "W", "X", "Y", "Z", "[",
            "\\", "]", "^", "_">>
AsciiHigh == <<"a", "b", "c", "d", "e", "f", "g", "h", "i", "j", "k", "l",
             "m", "n", "o", "p", "q", "r", "s", "t", "u", "v", "w", "x",
             "y", "z", "{", "|", "}", "~">>

Ord(c) ==
  CASE c = "\n" -> 10
    [] c = "\t" -> 9
    [] c = "\r" -> 13
    [] c = "\f" -> 12
    [] \E i \in 1..Len(AsciiLow) : AsciiLow[i] = c ->
         31 + (CHOOSE i \in 1..Len(AsciiLow) : AsciiLow[i] = c)
    [] OTHER -> 96 + (CHOOSE i \in 1..Len(AsciiHigh) : AsciiHigh[i] = c)

Utf8Encode(s) == [i \in 1..Len(s) |-> Ord(s[i])]

(***************************************************************************)
(* Temporary files.  fs is the sequence of files created with              *)
(* delete=False, in creation order; nothing in app.py removes a file.      *)
(***************************************************************************)
TmpPrefix == <<"s","h","u","f","f","l","e","_","o","p","e","n","s","e","a","r","c","h","_">>
SuffixCert == <<"_","c","l","i","e","n","t","_","c","e","r","t",".","p","e","m">>
SuffixKey == <<"_","c","l","i","e","n","t","_","k","e","y",".","p","e","m">>
SuffixCa == <<"_","c","a","_","c","e","r","t",".","p","e","m">>

\* NamedTemporaryFile picks a name no existing file has; the random part of
\* the name is modelled by the number of the file.
TmpName(files, suffix) == TmpPrefix \o NatToStr(Len(files) + 1) \o suffix

_write_temp_file(files, data, suffix) ==
  [fs |-> Append(files, [name |-> TmpName(files, suffix), content |-> data]),
   name |-> TmpName(files, suffix)]

PemMarker == <<"-","-","-","-","-","B","E","G","I","N">>

\* What get_file answers: nothing, a failure, or a success with the bytes.
StoreNothing == [present |-> FALSE, success |-> FALSE, data |-> <<>>]
StoreFailure == [present |-> TRUE, success |-> FALSE, data |-> <<>>]
StoreSuccess(data) == [present |-> TRUE, success |-> TRUE, data |-> data]

\* _load_file_or_value(value, suffix) with the temporary files so far and the
\* answer get_file would give.  path is PyNone or the name of the new file;
\* asked lists the references handed to get_file.
_load_file_or_value(value, suffix, files, filedata) ==
  IF ~Truthy(value)
  THEN [err |-> "", path |-> PyNone, fs |-> files, asked |-> <<>>]
  ELSE IF value.t = "str" /\ Contains(value.s, PemMarker)
  THEN LET w == _write_temp_file(files, Utf8Encode(value.s), suffix)
       IN [err |-> "", path |-> PyStr(w.name), fs |-> w.fs, asked |-> <<>>]
  ELSE IF ~filedata.present \/ ~filedata.success
  THEN [err |-> "ValueError: Failed to read file from Shuffle", path |-> PyNone,
        fs |-> files, asked |-> <<value>>]
  ELSE LET w == _write_temp_file(files, filedata.data, suffix)
       IN [err |-> "", path |-> PyStr(w.name), fs |-> w.fs, asked |-> <<value>>]

(***************************************************************************)
(* _format_response                                                        *)
(***************************************************************************)
\* requests.Response.ok: raise_for_status() raises for 400 <= status < 600 only.
ResponseOk(status) == ~(400 <= status /\ status < 600)

_format_response(response) ==
  [status |-> response.status_code,
   body |-> IF JsonLoads(response.text).ok THEN JsonLoads(response.text).v
            ELSE PyStr(response.text),
   headers |-> response.headers,
   url |-> response.url,
   success |-> ResponseOk(response.status_code)]

NoEnvelope ==
  [status |-> 0, body |-> PyNone, headers |-> PyNone, url |-> <<>>, success |-> FALSE]

(***************************************************************************)
(* _request                                                                *)
(***************************************************************************)
DefaultTimeout == 30

\* verify_value, lines 108-114
verify_policy(verify, ca_path) ==
  IF ~_to_bool(verify, TRUE) THEN PyBool(FALSE)
  ELSE IF Truthy(ca_path) THEN ca_path
  ELSE PyBool(TRUE)

\* cert_value with the pair built in the order (key, cert).
cert_tuple_swapped(cert_path, key_path) ==
  IF Truthy(cert_path) /\ Truthy(key_path) THEN PyTuple(<<key_path, cert_path>>)
  ELSE IF Truthy(cert_path) THEN cert_path
  ELSE PyNone

\* cert_value, lines 116-120
cert_tuple(cert_path, key_path) ==
  IF Truthy(cert_path) /\ Truthy(key_path) THEN PyTuple(<<cert_path, key_path>>)
  ELSE IF Truthy(cert_path) THEN cert_path
  ELSE PyNone

\* timeout, lines 122-127
coerce_timeout(timeout) ==
  LET t == IF ~Truthy(timeout) THEN PyInt(DefaultTimeout) ELSE timeout
  IN IF PyIntOf(t).ok THEN PyInt(PyIntOf(t).n) ELSE PyInt(DefaultTimeout)

\* The json= / data= keyword, lines 144-147
body_kwarg(parsed_body) ==
  IF parsed_body.t \in {"dict", "list"} THEN "json"
  ELSE IF parsed_body.t # "none" THEN "data"
  ELSE "none"

\* The call that ended before requests.request was reached.
Aborted(why, files, asked) ==
  [outcome |-> why, fs |-> files, asked |-> asked, sent |-> <<>>, envelope |-> NoEnvelope]

\* The request issued again when the server answers 5xx.
issue_request_retrying(kwargs, files, asked, http) ==
  IF http.kind = "error"
  THEN [outcome |-> "TransportError", fs |-> files, asked |-> asked,
        sent |-> <<kwargs>>, envelope |-> NoEnvelope]
  ELSE [outcome |-> "returned", fs |-> files, asked |-> asked,
        sent |-> IF http.status >= 500 THEN <<kwargs, kwargs>> ELSE <<kwargs>>,
        envelope |-> _format_response([status_code |-> http.status,
                                       text |-> http.text,
                                       headers |-> http.headers,
                                       url |-> kwargs.url])]

\* response = requests.request(**request_kwargs); return
\* self._format_response(response).  A transport error propagates.
issue_request(kwargs, files, asked, http) ==
  IF http.kind = "error"
  THEN [outcome |-> "TransportError", fs |-> files, asked |-> asked,
        sent |-> <<kwargs>>, envelope |-> NoEnvelope]
  ELSE [outcome |-> "returned", fs |-> files, asked |-> asked,
        sent |-> <<kwargs>>,
        envelope |-> _format_response([status_code |-> http.status,
                                       text |-> http.text,
                                       headers |-> http.headers,
                                       url |-> kwargs.url])]

\* env.cert, env.key, env.ca: what get_file answers for each reference;
\* env.http: what requests.request does (a response, or a transport error).
_request(method, path, base_url, client_cert, client_key, ca_cert, verify, headers, params, body, timeout, files, env) ==
  LET norm == _normalize_base_url(base_url)
      url == norm.url \o path
      cert == IF Truthy(client_cert)
              THEN _load_file_or_value(client_cert, SuffixCert, files, env.cert)
              ELSE [err |-> "", path |-> PyNone, fs |-> files, asked |-> <<>>]
      key == IF Truthy(client_key)
             THEN _load_file_or_value(client_key, SuffixKey, cert.fs, env.key)
             ELSE [err |-> "", path |-> PyNone, fs |-> cert.fs, asked |-> <<>>]
      ca == IF Truthy(ca_cert)
            THEN _load_file_or_value(ca_cert, SuffixCa, key.fs, env.ca)
            ELSE [err |-> "", path |-> PyNone, fs |-> key.fs, asked |-> <<>>]
      parsed_body == _parse_json_input(body)
      kwargs == [method |-> method,
                 url |-> url,
                 headers |-> IF Truthy(headers) THEN headers ELSE PyDict(<<>>),
                 params |-> params,
                 verify |-> verify_policy(verify, ca.path),
                 timeout |-> coerce_timeout(timeout),
                 cert |-> cert_tuple(cert.path, key.path),
                 bodyKind |-> body_kwarg(parsed_body),
                 body |-> parsed_body]
      asked == cert.asked \o key.asked \o ca.asked
  IN IF norm.err # "" THEN Aborted(norm.err, files, <<>>)
     ELSE IF cert.err # "" THEN Aborted(cert.err, cert.fs, cert.asked)
     ELSE IF key.err # "" THEN Aborted(key.err, key.fs, cert.asked \o key.asked)
     ELSE IF ca.err # "" THEN Aborted(ca.err, ca.fs, asked)
     ELSE issue_request(kwargs, ca.fs, asked, env.http)

(***************************************************************************)
(* The inputs of the model.                                                *)
(***************************************************************************)
Host == <<"e","s",":","9","2","0","0">>
HostHttp == SchemeHttp \o <<"e","s","/">>

PemCert == PemMarker \o <<" ","C","E","R","T">>
PemKey == PemMarker \o <<" ","K","E","Y">>
PemCa == PemMarker \o <<" ","C","A">>
\* References to files of the file store.
RefCert == <<"f","i","l","e","_","1">>
RefKey == <<"f","i","l","e","_","2">>
RefCa == <<"f","i","l","e","_","3">>

BaseUrlInputs == {PyNone, PyStr(<<>>), PyStr(Host), PyStr(HostHttp), PyStr(<<" ">>)}
CertInputs == {PyNone, PyStr(<<>>), PyStr(PemCert), PyStr(RefCert)}
KeyInputs == {PyNone, PyStr(PemKey), PyStr(RefKey)}
CaInputs == {PyNone, PyStr(PemCa), PyStr(RefCa)}

VerifyInputs ==
  {PyNone, PyStr(<<>>), PyBool(TRUE), PyBool(FALSE), PyInt(0), PyInt(1),
   PyStr(<<"f","a","l","s","e">>), PyStr(<<"F","a","l","s","e">>),
   PyStr(<<" ","N","O"," ">>), PyStr(<<"0">>), PyStr(<<"n">>),
   PyStr(<<"t","r","u","e">>), PyStr(<<"y","e","s">>), PyStr(<<"o","f","f">>),
   PyStr(<<"m","a","y","b","e">>), PyStr(<<" ">>)}

TimeoutInputs ==
  {PyNone, PyStr(<<>>), PyInt(0), PyInt(30), PyInt(7), PyInt(0 - 5),
   PyBool(TRUE), PyBool(FALSE),
   PyStr(<<"-","5">>), PyStr(<<"0">>), PyStr(<<" ","7"," ">>), PyStr(<<"1","_","0">>),
   PyStr(<<"a","b","c">>), PyStr(<<"3",".","5">>), PyList(<<PyInt(1)>>)}

PlainConn ==
  [base_url |-> PyStr(Host), client_cert |-> PyNone, client_key |-> PyNone,
   ca_cert |-> PyNone, verify |-> PyBool(TRUE), timeout |-> PyInt(DefaultTimeout)]

UrlConns == {[PlainConn EXCEPT !.base_url = u] : u \in BaseUrlInputs}
TlsConns ==
  {[PlainConn EXCEPT !.client_cert = c, !.client_key = k, !.ca_cert = a, !.verify = v] :
     c \in CertInputs, k \in KeyInputs, a \in CaInputs, v \in {PyBool(TRUE)}}
VerifyConns ==
  {[PlainConn EXCEPT !.verify = v, !.ca_cert = a] :
     v \in VerifyInputs, a \in {PyNone, PyStr(PemCa)}}
TimeoutConns == {[PlainConn EXCEPT !.timeout = x] : x \in TimeoutInputs}
MutualTlsConn == [PlainConn EXCEPT !.client_cert = PyStr(PemCert), !.client_key = PyStr(PemKey)]
FewConns ==
  {PlainConn, MutualTlsConn, [PlainConn EXCEPT !.base_url = PyNone],
   [PlainConn EXCEPT !.ca_cert = PyStr(RefCa)]}

\* What the file store may answer for a value (only a reference is looked up).
IsReference(value) == Truthy(value) /\ ~(value.t = "str" /\ Contains(value.s, PemMarker))
StoreAnswers(value, data) ==
  IF IsReference(value) THEN {StoreNothing, StoreFailure, StoreSuccess(data)}
  ELSE {StoreNothing}

StatusCodes == {100, 199, 200, 204, 301, 399, 400, 404, 499, 500, 503, 599, 600, 700}
ResponseTexts == {<<"{","}">>, <<"o","k">>, <<>>}
HttpResponse(status, text) ==
  [kind |-> "response", status |-> status, text |-> text, headers |-> PyDict(<<>>)]
TransportError == [kind |-> "error", status |-> 0, text |-> <<>>, headers |-> PyNone]
HttpAll == {HttpResponse(s, x) : s \in StatusCodes, x \in ResponseTexts} \cup {TransportError}
HttpFew == {HttpResponse(200, <<"{","}">>), HttpResponse(503, <<"o","k">>), TransportError}
HttpOne == {HttpResponse(200, <<"{","}">>)}

\* What the environment may do during a call with connection record c: the
\* file store's answers for the references in c, and one of the results https
\* of requests.request.
Envs(c, https) ==
  {[cert |-> sc, key |-> sk, ca |-> sa, http |-> h] :
     sc \in StoreAnswers(c.client_cert, Utf8Encode(PemCert)),
     sk \in StoreAnswers(c.client_key, Utf8Encode(PemKey)),
     sa \in StoreAnswers(c.ca_cert, Utf8Encode(PemCa)),
     h \in https}

\* A scenario is a connection record and what the environment does.
Scenarios(conns, https) ==
  UNION {{[conn |-> c, env |-> e] : e \in Envs(c, https)} : c \in conns}

\* Repeated invocations: every way of supplying TLS material, every base URL.
LifecycleConns ==
  {[PlainConn EXCEPT !.client_cert = c, !.client_key = k] : c \in CertInputs, k \in KeyInputs}
    \cup {[MutualTlsConn EXCEPT !.ca_cert = a] : a \in CaInputs}
    \cup {[PlainConn EXCEPT !.ca_cert = a] : a \in CaInputs}
LifecycleScenarios ==
  Scenarios(LifecycleConns, HttpOne) \cup Scenarios(UrlConns, HttpFew)
\* A single invocation: every verify, timeout and response.
WideScenarios ==
  Scenarios(VerifyConns \cup TimeoutConns \cup UrlConns, HttpOne)
    \cup Scenarios({PlainConn}, HttpAll)
    \cup Scenarios(TlsConns, HttpFew)
FewScenarios == Scenarios(FewConns, HttpFew)
MutualTlsScenarios == Scenarios({MutualTlsConn}, HttpOne)

Logs == <<"l","o","g","s">>
JsonA1 == <<"{", DQ, "a", DQ, ":", "1", "}">>
PyA1 == <<"{", SQ, "a", SQ, ":", " ", "1", "}">>
DictA1 == PyDict(<<PyPair(PyStr(<<"a">>), PyInt(1))>>)
QueryX1 == <<"x",":","1">>
TextTrue == <<"t","r","u","e">>

(***************************************************************************)
(* The actions: one per modelled entry point of the app.                   *)
(***************************************************************************)
NoCall ==
  [action |-> "", args |-> [conn |-> PlainConn], outcome |-> "", sent |-> <<>>,
   envelope |-> NoEnvelope, asked |-> <<>>,
   env |-> [cert |-> StoreNothing, key |-> StoreNothing, ca |-> StoreNothing,
            http |-> TransportError],
   created |-> <<>>]

Init ==
  /\ fs = <<>>
  /\ nCalls = 0
  /\ nSent = 0
  /\ last = NoCall
  /\ probe = [fn |-> "", arg |-> PyNone, done |-> TRUE, res |-> PyNone]

\* One invocation of an action, the limit-th at most: r is what _request did.
Call(limit, name, args, env, r) ==
  /\ nCalls < limit
  /\ fs' = r.fs
  /\ nCalls' = nCalls + 1
  /\ nSent' = nSent + Len(r.sent)
  /\ last' = [action |-> name, args |-> args, outcome |-> r.outcome, sent |-> r.sent,
              envelope |-> r.envelope, asked |-> r.asked, env |-> env,
              created |-> SubSeq(r.fs, Len(fs) + 1, Len(r.fs))]
  /\ UNCHANGED probe

MethodGet == <<"G","E","T">>
MethodPost == <<"P","O","S","T">>
PathHealth == <<"/","_","c","l","u","s","t","e","r","/","h","e","a","l","t","h">>
PathBulk == <<"/","_","b","u","l","k">>
PartSearch == <<"/","_","s","e","a","r","c","h">>
PartDoc == <<"/","_","d","o","c">>
KeyQ == PyStr(<<"q">>)
KeyRefresh == PyStr(<<"r","e","f","r","e","s","h">>)
NdjsonHeaders ==
  PyDict(<<PyPair(PyStr(<<"C","o","n","t","e","n","t","-","T","y","p","e">>),
                  PyStr(<<"a","p","p","l","i","c","a","t","i","o","n","/",
                          "x","-","n","d","j","s","o","n">>))>>)

\* params = {}; if value: params[key] = value
params_with(key, value) ==
  IF Truthy(value) THEN PyDict(<<PyPair(key, value)>>) ELSE PyDict(<<>>)

cluster_health(c, files, env) ==
  _request(MethodGet, PathHealth, c.base_url, c.client_cert, c.client_key, c.ca_cert, c.verify, PyNone, PyNone, PyNone, c.timeout, files, env)

ClusterHealth(limit, scenarios) ==
  \E sc \in scenarios :
    Call(limit, "cluster_health", [conn |-> sc.conn], sc.env,
         cluster_health(sc.conn, fs, sc.env))

create_document(index, body, refresh, c, files, env) ==
  _request(MethodPost, <<"/">> \o index \o PartDoc, c.base_url, c.client_cert, c.client_key, c.ca_cert, c.verify, PyNone, params_with(KeyRefresh, refresh), body, c.timeout, files, env)

CreateDocument(limit, scenarios) ==
  \E sc \in scenarios, body \in {DictA1, PyStr(JsonA1)}, refresh \in {PyNone, PyStr(TextTrue)} :
    Call(limit, "create_document",
         [conn |-> sc.conn, index |-> Logs, body |-> body, refresh |-> refresh], sc.env,
         create_document(Logs, body, refresh, sc.conn, fs, sc.env))

search(index, query_body, query_string, c, files, env) ==
  IF Truthy(query_body)
  THEN _request(MethodPost, <<"/">> \o index \o PartSearch, c.base_url, c.client_cert, c.client_key, c.ca_cert, c.verify, PyNone, params_with(KeyQ, query_string), query_body, c.timeout, files, env)
  ELSE _request(MethodGet, <<"/">> \o index \o PartSearch, c.base_url, c.client_cert, c.client_key, c.ca_cert, c.verify, PyNone, params_with(KeyQ, query_string), PyNone, c.timeout, files, env)

QueryBodyInputs ==
  {PyNone, PyStr(<<>>), PyStr(<<" ">>), PyStr(JsonA1), PyStr(PyA1), DictA1, PyDict(<<>>)}
QueryStringInputs == {PyNone, PyStr(<<>>), PyStr(QueryX1)}

Search(limit, scenarios) ==
  \E sc \in scenarios, query_body \in QueryBodyInputs, query_string \in QueryStringInputs :
    Call(limit, "search",
         [conn |-> sc.conn, index |-> Logs, query_body |-> query_body,
          query_string |-> query_string], sc.env,
         search(Logs, query_body, query_string, sc.conn, fs, sc.env))

bulk(payload, refresh, c, files, env) ==
  _request(MethodPost, PathBulk, c.base_url, c.client_cert, c.client_key, c.ca_cert, c.verify, NdjsonHeaders, params_with(KeyRefresh, refresh), payload, c.timeout, files, env)

\* ndjson texts: one JSON document per line, each line ended by a newline.
NdjsonTwoLines == <<"{", "}", "\n", "{", "}", "\n">>
NdjsonOneLine == <<"{", "}", "\n">>
NdjsonOneDoc == JsonA1 \o <<"\n">>
NdjsonArrayLine == <<"[", "1", "]", "\n">>
NdjsonTexts == {NdjsonTwoLines, NdjsonOneLine, NdjsonOneDoc, NdjsonArrayLine,
                JsonA1 \o <<"\n">> \o JsonA1 \o <<"\n">>}
RefreshInputs == {PyNone, PyStr(<<>>), PyStr(TextTrue)}

Bulk(limit, scenarios) ==
  \E sc \in scenarios, text \in NdjsonTexts, refresh \in RefreshInputs :
    Call(limit, "bulk",
         [conn |-> sc.conn, payload |-> PyStr(text), refresh |-> refresh], sc.env,
         bulk(PyStr(text), refresh, sc.conn, fs, sc.env))

\* str.upper()
Upper(s) ==
  [i \in 1..Len(s) |->
     IF \E k \in 1..26 : LowerChars[k] = s[i]
     THEN UpperChars[CHOOSE k \in 1..26 : LowerChars[k] = s[i]]
     ELSE s[i]]

\* headers / params of raw_request: parsed, and {} unless the result is a dict
parsed_mapping(text) ==
  IF Truthy(text)
  THEN IF _parse_json_input(text).t = "dict" THEN _parse_json_input(text) ELSE PyDict(<<>>)
  ELSE PyDict(<<>>)

raw_request(method, path, body, headers, params, c, files, env) ==
  _request(Upper(method), path, c.base_url, c.client_cert, c.client_key, c.ca_cert, c.verify, parsed_mapping(headers), parsed_mapping(params), body, c.timeout, files, env)

MappingInputs == {PyNone, PyStr(JsonA1), PyStr(<<"[","1","]">>), PyStr(<<"x">>)}

RawRequest(limit, scenarios) ==
  \E sc \in scenarios, method \in {<<"g","e","t">>, MethodPost},
     body \in {PyNone, PyStr(JsonA1)}, headers \in MappingInputs, params \in {PyNone, PyStr(JsonA1)} :
    Call(limit, "raw_request",
         [conn |-> sc.conn, method |-> method, path |-> PathBulk, body |-> body,
          headers |-> headers, params |-> params], sc.env,
         raw_request(method, PathBulk, body, headers, params, sc.conn, fs, sc.env))

\* Repeated invocations of the app: at most MaxCalls of them.
Next ==
  \/ ClusterHealth(MaxCalls, LifecycleScenarios)
  \/ CreateDocument(MaxCalls, MutualTlsScenarios)
  \/ Search(MaxCalls, MutualTlsScenarios)
  \/ Bulk(MaxCalls, MutualTlsScenarios)
  \/ RawRequest(MaxCalls, MutualTlsScenarios)

Spec == Init /\ [][Next]_vars

\* One invocation of the app, over the wide input families.
NextOneCall ==
  \/ ClusterHealth(1, WideScenarios)
  \/ CreateDocument(1, FewScenarios)
  \/ Search(1, FewScenarios)
  \/ Bulk(1, FewScenarios)
  \/ RawRequest(1, FewScenarios)

SpecOneCall == Init /\ [][NextOneCall]_vars

(***************************************************************************)
(* The helpers on their own: an input is drawn, then the helper is applied. *)
(***************************************************************************)
Pending(fn, arg) == [fn |-> fn, arg |-> arg, done |-> FALSE, res |-> PyNone]

ProbeInit(fn, inputs) ==
  /\ fs = <<>>
  /\ nCalls = 0
  /\ nSent = 0
  /\ last = NoCall
  /\ probe \in {Pending(fn, x) : x \in inputs}

UrlAlphabet == {" ", "/", "e", ":"}
UrlInputs ==
  {PyNone, PyStr(<<>>)}
    \cup {PyStr(pad \o scheme \o rest) :
            pad \in {<<>>, <<" ">>},
            scheme \in {<<>>, SchemeHttp, SchemeHttps, <<"H","T","T","P",":","/","/">>},
            rest \in SeqsUpTo(UrlAlphabet, MaxUrlLen)}

NormalizeBaseUrl ==
  /\ probe.fn = "_normalize_base_url"
  /\ ~probe.done
  /\ probe' = [probe EXCEPT !.done = TRUE, !.res = _normalize_base_url(probe.arg)]
  /\ UNCHANGED <<fs, nCalls, nSent, last>>

SpecNormalize ==
  ProbeInit("_normalize_base_url", UrlInputs) /\ [][NormalizeBaseUrl]_vars

BodyAlphabet == {"{", "}", "[", "]", ",", ":", "1", DQ, SQ, " "}
BodyCorpus ==
  {JsonA1, PyA1, NdjsonTwoLines, NdjsonOneLine, NdjsonOneDoc,
   <<"{", "1", ",", " ", "2", "}">>,
   <<"[", "1", ",", "]">>,
   <<"[", "1", "]", ",", "1">>,
   <<"{", "1", ":", "1", "}">>,
   <<"{", DQ, "a", DQ, ":", "[", "1", ",", "{", "}", "]", "}">>,
   <<"[", "t", "r", "u", "e", ",", "n", "u", "l", "l", "]">>,
   <<"[", "T", "r", "u", "e", ",", "N", "o", "n", "e", "]">>,
   <<" ", "\n", " ">>,
   <<"h", "e", "l", "l", "o">>,
   <<" ", "{", "}", " ">>}
BodyInputs ==
  {PyNone, PyInt(5), PyBool(TRUE), DictA1, PyList(<<PyInt(1)>>)}
    \cup {PyStr(s) : s \in SeqsUpTo(BodyAlphabet, MaxBodyLen) \cup BodyCorpus}

ParseJsonInput ==
  /\ probe.fn = "_parse_json_input"
  /\ ~probe.done
  /\ probe' = [probe EXCEPT !.done = TRUE, !.res = _parse_json_input(probe.arg)]
  /\ UNCHANGED <<fs, nCalls, nSent, last>>

SpecParse ==
  ProbeInit("_parse_json_input", BodyInputs) /\ [][ParseJsonInput]_vars

(***************************************************************************)
(* Properties.                                                             *)
(***************************************************************************)
Called == last.action # ""
Sent == last.sent # <<>>
Kwargs == last.sent[1]
Conn == last.args.conn

ConfigError == "ValueError: base_url is required"
RetrievalError == "ValueError: Failed to read file from Shuffle"

\* Whether dict d has an entry under key k.
HasKey(d, k) == d.t = "dict" /\ \E i \in 1..Len(d.items) : d.items[i].items[1] = k

\* The temporary files the last call created whose name ends with suffix.
CreatedWith(suffix) ==
  {last.created[i] : i \in {j \in 1..Len(last.created) : EndsWith(last.created[j].name, suffix)}}

\* C1: for every base_url that is non-empty and does not start with "http://"
\* or "https://", the URL resolved by _normalize_base_url starts with
\* "https://" and does not end with "/".
C1_SchemeDefaulted ==
  (/\ probe.fn = "_normalize_base_url" /\ probe.done
   /\ probe.arg.t = "str" /\ probe.arg.s # <<>>
   /\ ~StartsWith(probe.arg.s, SchemeHttp)
   /\ ~StartsWith(probe.arg.s, SchemeHttps))
  => (/\ probe.res.err = ""
      /\ StartsWith(probe.res.url, SchemeHttps)
      /\ ~EndsWith(probe.res.url, <<"/">>))

\* C2: in the envelope built by _format_response, success is true if and only
\* if the HTTP status is in 200..399, for every status the client returns.
C2_SuccessIff2xx3xx ==
  (Called /\ last.outcome = "returned")
  => (last.envelope.success <=>
        (200 <= last.envelope.status /\ last.envelope.status <= 399))

\* C3: the timeout handed to the HTTP client is a positive integer; it is 30
\* when the input is falsy or not convertible to an integer, and the integer
\* value of the input otherwise.
C3_TimeoutPositive ==
  Sent =>
    LET given == Conn.timeout
        t == Kwargs.timeout
    IN /\ t.t = "int"
       /\ t.n > 0
       /\ (~Truthy(given) \/ ~PyIntOf(given).ok) => t.n = 30
       /\ (Truthy(given) /\ PyIntOf(given).ok) => t.n = PyIntOf(given).n

\* C4: once an invocation has returned (or aborted), none of the temporary
\* files it created for client cert, client key or CA cert remains.
C4_NoTempFilesRemain ==
  Called =>
    \A i \in 1..Len(last.created) :
      \A j \in 1..Len(fs) : fs[j].name # last.created[i].name

\* Whether the call of the last action has to abort before the request.
MustAbortConfig == ~Truthy(Conn.base_url)
FailsToLoad(value, answer) ==
  IsReference(value) /\ ~(answer.present /\ answer.success)
MustAbortRetrieval ==
  \/ FailsToLoad(Conn.client_cert, last.env.cert)
  \/ FailsToLoad(Conn.client_key, last.env.key)
  \/ FailsToLoad(Conn.ca_cert, last.env.ca)

\* C5: every invocation issues at most one HTTP request and never retries;
\* it issues none when it aborts with a configuration error or a retrieval
\* error; and for every HTTP status returned, 4xx and 5xx included, it
\* returns an envelope instead of raising.
C5_AtMostOneRequest ==
  /\ nSent <= nCalls
  /\ Called =>
       /\ Len(last.sent) <= 1
       /\ MustAbortConfig => (last.outcome = ConfigError /\ last.sent = <<>>)
       /\ (~MustAbortConfig /\ MustAbortRetrieval)
            => (last.outcome = RetrievalError /\ last.sent = <<>>)
       /\ last.outcome \in {ConfigError, RetrievalError} => last.sent = <<>>
       /\ (~MustAbortConfig /\ ~MustAbortRetrieval /\ last.env.http.kind = "response")
            => /\ last.outcome = "returned"
               /\ Len(last.sent) = 1
               /\ last.envelope.status = last.env.http.status

\* C5 witness: a call answered 503 returned an envelope, after a call that
\* aborted without a request.
C5_Witness ==
  /\ nCalls = 2 /\ nSent = 1
  /\ last.outcome = "returned" /\ last.envelope.status = 503
  /\ ~last.envelope.success

DisablesVerify(v) ==
  \/ v = PyBool(FALSE)
  \/ /\ v.t \in {"str", "int"}
     /\ Lower(Strip(PyStrOf(v))) \in
          {<<"f","a","l","s","e">>, <<"0">>, <<"n","o">>, <<"n">>}

\* C7: the verify policy handed to the HTTP client is False if and only if the
\* verify input coerces to false (boolean False, or text that trimmed and
\* lower-cased is false, 0, no or n); otherwise the CA temporary file when a
\* CA cert was supplied; otherwise True.
C7_VerifyPolicy ==
  Sent =>
    LET off == DisablesVerify(Conn.verify)
        caFiles == CreatedWith(SuffixCa)
    IN /\ (Kwargs.verify = PyBool(FALSE)) <=> off
       /\ (~off /\ Truthy(Conn.ca_cert))
            => \E f \in caFiles : Kwargs.verify = PyStr(f.name)
       /\ (~off /\ ~Truthy(Conn.ca_cert)) => Kwargs.verify = PyBool(TRUE)
       /\ Conn.verify \in {PyNone, PyStr(<<>>), PyStr(<<"m","a","y","b","e">>)}
            => Kwargs.verify # PyBool(FALSE)

\* C7 witness: verify " NO " with a CA cert supplied: verification is off.
C7_Witness ==
  /\ Sent
  /\ Conn.verify = PyStr(<<" ","N","O"," ">>)
  /\ Conn.ca_cert = PyStr(PemCa)
  /\ Kwargs.verify = PyBool(FALSE)
  /\ CreatedWith(SuffixCa) # {}

\* C8: for every ndjson payload, bulk issues POST /_bulk with Content-Type
\* application/x-ndjson and the payload as the raw body, never as a JSON
\* payload; the query has a refresh parameter iff refresh is non-empty.
C8_BulkRawNdjson ==
  (last.action = "bulk" /\ Sent)
  => /\ Kwargs.method = MethodPost
     /\ EndsWith(Kwargs.url, PathBulk)
     /\ Kwargs.headers = NdjsonHeaders
     /\ Kwargs.bodyKind = "data"
     /\ Kwargs.body = last.args.payload
     /\ HasKey(Kwargs.params, KeyRefresh) <=> Truthy(last.args.refresh)

\* C9: search issues one request to /{index}/_search: GET with q (iff
\* query_string is non-empty) and no body when query_body is absent or empty,
\* POST with the body when query_body is supplied; no request carries both q
\* and a body, and no POST is issued without a body.
C9_SearchQueryOrBody ==
  (last.action = "search" /\ Sent)
  => /\ Len(last.sent) = 1
     /\ EndsWith(Kwargs.url, <<"/">> \o last.args.index \o PartSearch)
     /\ ~Truthy(last.args.query_body)
          => /\ Kwargs.method = MethodGet
             /\ Kwargs.bodyKind = "none"
             /\ HasKey(Kwargs.params, KeyQ) <=> Truthy(last.args.query_string)
     /\ Truthy(last.args.query_body)
          => /\ Kwargs.method = MethodPost
             /\ Kwargs.bodyKind # "none"
     /\ ~(HasKey(Kwargs.params, KeyQ) /\ Kwargs.bodyKind # "none")
     /\ Kwargs.method = MethodPost => Kwargs.bodyKind # "none"

\* The file of fs named name.
FileNamed(name) == CHOOSE f \in {fs[i] : i \in 1..Len(fs)} : f.name = name
IsInlinePem(value) == value.t = "str" /\ Contains(value.s, PemMarker)

\* C10: the client certificate handed to the HTTP client is the pair (cert
\* path, key path) when both client_cert and client_key are supplied, the cert
\* path alone when only client_cert is, and omitted otherwise.  When both are
\* inline PEM text, the paths are two distinct temporary files, each holding
\* its own PEM text, and the file store is not asked for either.
C10_CertTuple ==
  Sent =>
    LET c == Conn.client_cert
        k == Conn.client_key
        certFiles == CreatedWith(SuffixCert)
        keyFiles == CreatedWith(SuffixKey)
    IN /\ (Truthy(c) /\ Truthy(k))
            => \E cf \in certFiles, kf \in keyFiles :
                 /\ Kwargs.cert = PyTuple(<<PyStr(cf.name), PyStr(kf.name)>>)
                 /\ cf.name # kf.name
       /\ (Truthy(c) /\ ~Truthy(k))
            => \E cf \in certFiles : Kwargs.cert = PyStr(cf.name)
       /\ ~Truthy(c) => Kwargs.cert = PyNone
       /\ (IsInlinePem(c) /\ IsInlinePem(k))
            => /\ Kwargs.cert.t = "tuple"
               /\ Kwargs.cert.items[1] # Kwargs.cert.items[2]
               /\ FileNamed(Kwargs.cert.items[1].s).content = Utf8Encode(c.s)
               /\ FileNamed(Kwargs.cert.items[2].s).content = Utf8Encode(k.s)
               /\ \A i \in 1..Len(last.asked) : last.asked[i] \notin {c, k}

\* C10 witness: the second call, with inline PEM cert and key, handed a pair
\* of two new files to the HTTP client.
C10_Witness ==
  /\ Sent /\ nCalls = 2 /\ Len(fs) > 2
  /\ IsInlinePem(Conn.client_cert) /\ IsInlinePem(Conn.client_key)
  /\ Kwargs.cert.t = "tuple"
  /\ Len(last.created) = 2
====
